---- MODULE Spec2Model ----
(***************************************************************************)
(* Model of the batch-voting automation (src/index.js, the rate-based      *)
(* variant, and the script embedded in src/Dockerfile from line 25 on, the *)
(* time-windowed variant).  The state is the outer loop's position, its    *)
(* running total, the vote ledger, the browser sessions and the files      *)
(* written.  A step runs the script from one await to the next: pc names   *)
(* the await that is pending, and a signal can arrive at each of them.     *)
(***************************************************************************)
EXTENDS Integers, Sequences, FiniteSets, TLC

VARIABLES variant, logsDir, pc, totalVotes, votes, statistics, files, exitStatus, signal,
          sessions, live, cur, proxyCalls, newProxyUrl, hourRead,
          navRetries, navPlan, navI, gotoCalls, navSleeps, navResult,
          consentOutcome, cookieOutcome,
          times, i, buttonId, confirmationVisible, batchAppended, clicks, clock,
          outcome, config, delayed, navigated, consented, uncredited

vars == <<variant, logsDir, pc, totalVotes, votes, statistics, files, exitStatus, signal,
          sessions, live, cur, proxyCalls, newProxyUrl, hourRead,
          navRetries, navPlan, navI, gotoCalls, navSleeps, navResult,
          consentOutcome, cookieOutcome,
          times, i, buttonId, confirmationVisible, batchAppended, clicks, clock,
          outcome, config, delayed, navigated, consented, uncredited>>

-----------------------------------------------------------------------------
(* Bounds of the model and values of the configuration document.           *)

\* CONFIG.voting.maxVotes: the quota of the campaign.
MaxVotes == 3
\* Sessions the model lets the outer loop open.
MaxSessions == 3
\* Clicks the model lets a run perform.
MaxClicks == 2
\* Largest retries argument navigateWithRetry is checked with.
MaxRetries == 4
\* Largest times argument voteMultipleTimes is checked with.
MaxTimes == 3
\* Longest ledger saveVoteLog is checked with.
MaxRecords == 4
\* CONFIG.schedule.voteWindow.start and .end
VoteWindowStart == 9
VoteWindowEnd == 17

\* The retries argument the outer loop passes to navigateWithRetry.
MainLoopRetries == 3
\* randomInterval(1, 5) of the rate-based variant, const 5 of the windowed one.
BatchMin == 1
BatchMax == 5

Variants == {"rate", "window"}
\* Whether the directory saveVoteLog writes into exists.  index.js writes
\* next to the script (__dirname), which exists; the Dockerfile's script
\* writes into __dirname/logs, which neither script creates.
LogsDirStates(v) == IF v = "rate" THEN {TRUE} ELSE BOOLEAN
\* Date.getUTCHours()
Hours == 0 .. 23
\* selectors.mainVoteButtonId, selectors.alternativeVoteButtonIds
MainVoteButtonId == "main"
AlternativeVoteButtonIds == <<"alt">>
\* Identifiers of the ledgers saveVoteLog is checked with: "constructor" is
\* also the name of a property every object literal inherits.
SaveIds == {"main", "alt", "constructor"}
OverlayOutcomes == {"clicked", "absent", "clickFailed"}
SetupStages == {"anonymizeProxy", "launch", "newPage"}
Signals == {"SIGINT", "SIGTERM"}
\* What config.json holds: a complete document, text that is not JSON, a
\* document without the voting object, without voting.maxVotes, or without
\* the rate parameter (voting.votesPerHour / voting.totalVotingPeriodDays).
Configs == {"valid", "malformed", "noVoting", "noMaxVotes", "noRate"}

-----------------------------------------------------------------------------
(* saveVoteLog: the statistics and the persisted document.                 *)

\* A JavaScript number and a JavaScript string.  The only strings the counts
\* can become are the source text of an inherited function followed by n
\* characters "1".
Num(n) == [kind |-> "number", val |-> n]
FnText(n) == [kind |-> "string", val |-> n]

\* Property names every object literal inherits from Object.prototype with a
\* function as value (those that occur in SaveIds).
InheritedFunctions == {"constructor"}

\* (acc[id] || 0) + 1 on the accumulator {} of the reduce.
CountUp(acc, id) ==
  IF id \in DOMAIN acc
    THEN IF acc[id].kind = "number" THEN Num(acc[id].val + 1)
                                    ELSE FnText(acc[id].val + 1)
    ELSE IF id \in InheritedFunctions THEN FnText(1) ELSE Num(1)

\* acc[vote.buttonId] = ...; return acc
ReduceStep(acc, id) ==
  [k \in DOMAIN acc \cup {id} |-> IF k = id THEN CountUp(acc, id) ELSE acc[k]]

RECURSIVE VoteCounts(_, _)
VoteCounts(vs, acc) ==
  IF vs = <<>> THEN acc
  ELSE VoteCounts(Tail(vs), ReduceStep(acc, Head(vs).buttonId))

EmptyObject == [k \in {} |-> Num(0)]
NoStatistics == [set |-> FALSE, totalVotes |-> 0, votesByCandidate |-> EmptyObject]

\* voteLog.statistics = { totalVotes, votesByCandidate: voteCounts }
Statistics(vs) ==
  [set |-> TRUE, totalVotes |-> Len(vs), votesByCandidate |-> VoteCounts(vs, EmptyObject)]

\* JSON.stringify(voteLog): the document holds the records in array order,
\* each with its two string fields, and the statistics object.
JsonDocument(vs, st) ==
  [votes |-> [k \in 1 .. Len(vs) |->
                [buttonId |-> vs[k].buttonId, timestamp |-> vs[k].timestamp]],
   statistics |-> [totalVotes |-> st.totalVotes,
                   votesByCandidate |-> st.votesByCandidate]]

\* The files on disk after fs.writeFileSync(logFilePath, doc).  The name
\* holds new Date().toISOString(), the time of the save to the millisecond:
\* a save in the same millisecond as the save before it has that save's
\* name and replaces its file, any other save adds a file.
WrittenFiles(fs, doc) ==
  {Append(fs, doc)} \cup
    (IF fs = <<>> THEN {} ELSE {[fs EXCEPT ![Len(fs)] = doc]})

\* The effect of saveVoteLog on voteLog.statistics and on the disk when
\* fs.writeFileSync returns.
SaveVoteLog ==
  /\ statistics' = Statistics(votes)
  /\ files' \in WrittenFiles(files, JsonDocument(votes, Statistics(votes)))

\* fs.writeFileSync throws (ENOENT, the directory is missing): the
\* statistics were assigned before the write, no file is written, and the
\* exception leaves saveVoteLog.
SaveVoteLogThrows ==
  /\ statistics' = Statistics(votes)
  /\ files' = files

-----------------------------------------------------------------------------
(* Initial state: the scripts' top level up to the first loop test.        *)

NoNavigation ==
  /\ navRetries = 0 /\ navPlan = <<>> /\ navI = 0
  /\ gotoCalls = 0 /\ navSleeps = 0 /\ navResult = "none"

NoBatch ==
  /\ times = 0 /\ i = 0 /\ buttonId = "none" /\ confirmationVisible = FALSE
  /\ batchAppended = 0

Init ==
  /\ variant \in Variants
  /\ logsDir \in LogsDirStates(variant)
  /\ pc = "loop"
  /\ totalVotes = 0
  /\ votes = <<>>
  /\ statistics = NoStatistics
  /\ files = <<>>
  /\ exitStatus = "running"
  /\ signal = "none"
  /\ sessions = <<>>
  /\ live = {}
  /\ cur = 0
  /\ proxyCalls = 0 /\ newProxyUrl = 0
  /\ hourRead = -1
  /\ NoNavigation
  /\ consentOutcome = "none" /\ cookieOutcome = "none"
  /\ NoBatch
  /\ clicks = 0 /\ clock = 0
  /\ outcome = "none"
  /\ config = "valid"
  /\ delayed = FALSE /\ navigated = FALSE /\ consented = FALSE
  /\ uncredited = 0

-----------------------------------------------------------------------------
(* The outer loop: the while test, the vote window, the session.           *)

ledgerVars == <<votes, statistics, files>>
procVars == <<exitStatus, signal>>
sessVars == <<sessions, live, cur, proxyCalls, newProxyUrl>>
navVars == <<navRetries, navPlan, navI, gotoCalls, navSleeps, navResult>>
overlayVars == <<consentOutcome, cookieOutcome>>
batchVars == <<times, i, buttonId, confirmationVisible, batchAppended>>
clickVars == <<clicks, clock>>
histVars == <<delayed, navigated, consented, uncredited>>

Running == exitStatus = "running"

\* while (totalVotes < CONFIG.voting.maxVotes): a comparison with undefined
\* is false.
LoopContinues(total) == config # "noMaxVotes" /\ total < MaxVotes

\* currentHour >= voteWindow.start && currentHour < voteWindow.end
IsWithinVoteWindowInclusive(h) == h >= VoteWindowStart /\ h <= VoteWindowEnd
IsWithinVoteWindow(h) == h >= VoteWindowStart /\ h < VoteWindowEnd

\* The loop test fails: "Voting completed" and saveVoteLog, with no await
\* in between; the async function ends.
LoopExit ==
  /\ Running /\ pc = "loop"
  /\ ~LoopContinues(totalVotes)
  /\ logsDir
  /\ SaveVoteLog
  /\ pc' = "done"
  /\ UNCHANGED <<variant, logsDir, config, histVars, totalVotes, votes, procVars, sessVars, hourRead, navVars,
                 overlayVars, batchVars, clickVars, outcome>>

\* The loop test fails and saveVoteLog throws: nothing catches it, the
\* async function rejects and the process ends on the unhandled rejection.
LoopExitSaveThrows ==
  /\ Running /\ pc = "loop"
  /\ ~LoopContinues(totalVotes)
  /\ ~logsDir
  /\ SaveVoteLogThrows
  /\ pc' = "crashed"
  /\ exitStatus' = "1"
  /\ UNCHANGED <<variant, logsDir, config, histVars, totalVotes, votes, signal, sessVars, hourRead,
                 navVars, overlayVars, batchVars, clickVars, outcome>>

\* index.js: the loop body starts with initializeBrowserWithNewIP.
LoopEnter ==
  /\ Running /\ pc = "loop" /\ variant = "rate"
  /\ LoopContinues(totalVotes)
  /\ pc' = "open"
  /\ outcome' = "none"
  /\ UNCHANGED <<variant, logsDir, config, histVars, totalVotes, ledgerVars, procVars, sessVars, hourRead,
                 navVars, overlayVars, batchVars, clickVars>>

\* Dockerfile: isWithinVoteWindow() true, the body goes on to the session.
WindowInside ==
  /\ Running /\ pc = "loop" /\ variant = "window"
  /\ LoopContinues(totalVotes)
  /\ \E h \in Hours :
       /\ IsWithinVoteWindow(h)
       /\ hourRead' = h
  /\ pc' = "open"
  /\ outcome' = "none"
  /\ UNCHANGED <<variant, logsDir, config, histVars, totalVotes, ledgerVars, procVars, sessVars,
                 navVars, overlayVars, batchVars, clickVars>>

\* Dockerfile: isWithinVoteWindow() false: sleep one to two minutes.
WindowOutside ==
  /\ Running /\ pc = "loop" /\ variant = "window"
  /\ LoopContinues(totalVotes)
  /\ \E h \in Hours :
       /\ ~IsWithinVoteWindow(h)
       /\ hourRead' = h
  /\ pc' = "windowSleep"
  /\ outcome' = "none"
  /\ UNCHANGED <<variant, logsDir, config, histVars, totalVotes, ledgerVars, procVars, sessVars,
                 navVars, overlayVars, batchVars, clickVars>>

\* The sleep ends; continue goes back to the loop test.
WindowWake ==
  /\ Running /\ pc = "windowSleep"
  /\ pc' = "loop"
  /\ hourRead' = -1
  /\ UNCHANGED <<variant, logsDir, config, histVars, totalVotes, ledgerVars, procVars, sessVars,
                 navVars, overlayVars, batchVars, clickVars, outcome>>

\* The endpoint proxyChain.anonymizeProxy resolves with at its n-th call.
\* proxy-chain is a dependency, not part of the sources: the specification
\* requires of it a distinct forwarding endpoint per invocation, and the
\* scripts never close one.
NewProxyEndpoint(calls) == calls + 1

\* args: [..., `--proxy-server=${newProxyUrl}`]: the browser is launched on
\* the endpoint this call of initializeBrowserWithNewIP obtained.
LaunchProxyServerFirst(url, sess) == IF sess = <<>> THEN url ELSE sess[1].proxy
LaunchProxyServer(url, sess) == url

\* initializeBrowserWithNewIP, first await: proxyChain.anonymizeProxy
\* resolves with the endpoint of this call.
AnonymizeProxyOk ==
  /\ Running /\ pc = "open"
  /\ Len(sessions) < MaxSessions
  /\ proxyCalls' = proxyCalls + 1
  /\ newProxyUrl' = NewProxyEndpoint(proxyCalls)
  /\ delayed' = FALSE
  /\ pc' = "launch"
  /\ UNCHANGED <<variant, logsDir, config, navigated, consented, uncredited, totalVotes, ledgerVars,
                 procVars, sessions, live, cur, hourRead, navVars, overlayVars,
                 batchVars, clickVars, outcome>>

\* Second await: puppeteer.launch with --proxy-server=newProxyUrl resolves;
\* a browser is running.
LaunchOk ==
  /\ Running /\ pc = "launch"
  /\ sessions' = Append(sessions, [proxy |-> LaunchProxyServer(newProxyUrl, sessions),
                                   closes |-> 0])
  /\ live' = live \cup {Len(sessions) + 1}
  /\ cur' = Len(sessions) + 1
  /\ pc' = "newPage"
  /\ UNCHANGED <<variant, logsDir, config, histVars, totalVotes, ledgerVars, procVars, proxyCalls,
                 newProxyUrl, hourRead, navVars, overlayVars, batchVars, clickVars,
                 outcome>>

\* Third await: browser.newPage resolves and { browser, page } is returned.
\* The loop then calls navigateWithRetry(page, url, 3, 60000); the outcomes
\* the page will give to the goto calls are the plan.
NewPageOk ==
  /\ Running /\ pc = "newPage"
  /\ newProxyUrl' = 0
  /\ hourRead' = -1
  /\ navRetries' = MainLoopRetries
  /\ navPlan' \in [1 .. MainLoopRetries -> BOOLEAN]
  /\ navI' = 0 /\ gotoCalls' = 0 /\ navSleeps' = 0 /\ navResult' = "none"
  /\ pc' = "nav"
  /\ UNCHANGED <<variant, logsDir, config, histVars, totalVotes, ledgerVars, procVars, sessions,
                 live, cur, proxyCalls, overlayVars, batchVars, clickVars, outcome>>

\* An await of initializeBrowserWithNewIP rejects.  The await in the loop
\* body is outside every try: the async function rejects and the process
\* ends on the unhandled rejection.  Nothing closes a browser that was
\* launched.
SetupRejects(stage) ==
  /\ outcome' = stage
  /\ pc' = "crashed"
  /\ exitStatus' = "1"
  /\ hourRead' = -1
  /\ UNCHANGED <<variant, logsDir, config, histVars, totalVotes, ledgerVars, signal, sessions, live,
                 cur, newProxyUrl, navVars, overlayVars, batchVars, clickVars>>

\* proxyChain.anonymizeProxy rejects: the call was made, no endpoint.
AnonymizeProxyFails ==
  /\ Running /\ pc = "open"
  /\ Len(sessions) < MaxSessions
  /\ proxyCalls' = proxyCalls + 1
  /\ SetupRejects("anonymizeProxy")

\* puppeteer.launch rejects: no browser.
LaunchFails ==
  /\ Running /\ pc = "launch"
  /\ UNCHANGED proxyCalls
  /\ SetupRejects("launch")

\* browser.newPage rejects: the browser launched stays running.
NewPageFails ==
  /\ Running /\ pc = "newPage"
  /\ UNCHANGED proxyCalls
  /\ SetupRejects("newPage")

\* browser.close() on the loop's browser.
BrowserClose ==
  /\ sessions' = [sessions EXCEPT ![cur].closes = @ + 1]
  /\ live' = live \ {cur}
  /\ cur' = 0
  /\ delayed' = FALSE /\ navigated' = FALSE /\ consented' = FALSE
  /\ UNCHANGED <<proxyCalls, newProxyUrl>>

-----------------------------------------------------------------------------
(* navigateWithRetry                                                       *)

\* if (i < retries - 1): sleep and retry
NavMayRetryOffByOne(k, retries) == k < retries
NavMayRetry(k, retries) == k < retries - 1

\* page.goto resolves: return true.
NavGotoOk ==
  /\ Running /\ pc = "nav"
  /\ navI < navRetries
  /\ navPlan[navI + 1]
  /\ gotoCalls' = gotoCalls + 1
  /\ navResult' = "true"
  /\ pc' = "afterNav"
  /\ navigated' = TRUE
  /\ UNCHANGED <<variant, logsDir, config, delayed, consented, uncredited, totalVotes, ledgerVars, procVars, sessVars, hourRead,
                 navRetries, navPlan, navI, navSleeps, overlayVars, batchVars,
                 clickVars, outcome>>

\* page.goto raises and attempts are left: the catch starts the backoff
\* sleep of 5 to 10 s.
NavGotoFailRetry ==
  /\ Running /\ pc = "nav"
  /\ navI < navRetries
  /\ ~navPlan[navI + 1]
  /\ NavMayRetry(navI, navRetries)
  /\ gotoCalls' = gotoCalls + 1
  /\ navSleeps' = navSleeps + 1
  /\ pc' = "navSleep"
  /\ UNCHANGED <<variant, logsDir, config, histVars, totalVotes, ledgerVars, procVars, sessVars, hourRead,
                 navRetries, navPlan, navI, navResult, overlayVars, batchVars,
                 clickVars, outcome>>

\* The backoff sleep ends: i++, next attempt.
NavBackoffDone ==
  /\ Running /\ pc = "navSleep"
  /\ navI' = navI + 1
  /\ pc' = "nav"
  /\ UNCHANGED <<variant, logsDir, config, histVars, totalVotes, ledgerVars, procVars, sessVars, hourRead,
                 navRetries, navPlan, gotoCalls, navSleeps, navResult, overlayVars,
                 batchVars, clickVars, outcome>>

\* page.goto raises on the last attempt: return false.
NavGotoFailLastSleeps ==
  /\ Running /\ pc = "nav"
  /\ navI < navRetries
  /\ ~navPlan[navI + 1]
  /\ ~NavMayRetry(navI, navRetries)
  /\ gotoCalls' = gotoCalls + 1
  /\ navSleeps' = navSleeps + 1
  /\ navResult' = "false"
  /\ pc' = "afterNav"
  /\ UNCHANGED <<variant, logsDir, config, histVars, totalVotes, ledgerVars, procVars, sessVars, hourRead,
                 navRetries, navPlan, navI, overlayVars, batchVars,
                 clickVars, outcome>>
NavGotoFailLast ==
  /\ Running /\ pc = "nav"
  /\ navI < navRetries
  /\ ~navPlan[navI + 1]
  /\ ~NavMayRetry(navI, navRetries)
  /\ gotoCalls' = gotoCalls + 1
  /\ navResult' = "false"
  /\ pc' = "afterNav"
  /\ UNCHANGED <<variant, logsDir, config, histVars, totalVotes, ledgerVars, procVars, sessVars, hourRead,
                 navRetries, navPlan, navI, navSleeps, overlayVars, batchVars,
                 clickVars, outcome>>

\* The for test fails: the function ends without a return statement.
NavFallOff ==
  /\ Running /\ pc = "nav"
  /\ ~(navI < navRetries)
  /\ navResult' = "undefined"
  /\ pc' = "afterNav"
  /\ UNCHANGED <<variant, logsDir, config, histVars, totalVotes, ledgerVars, procVars, sessVars, hourRead,
                 navRetries, navPlan, navI, gotoCalls, navSleeps, overlayVars,
                 batchVars, clickVars, outcome>>

ForgetNavigation ==
  /\ navRetries' = 0 /\ navPlan' = <<>> /\ navI' = 0
  /\ gotoCalls' = 0 /\ navSleeps' = 0 /\ navResult' = "none"

\* if (!navigationSuccessful) { await browser.close(); continue; }
NavFailedGoesOn ==
  /\ Running /\ pc = "afterNav"
  /\ navResult # "true"
  /\ ForgetNavigation
  /\ pc' = "consent"
  /\ UNCHANGED <<variant, logsDir, config, histVars, totalVotes, ledgerVars, procVars, sessVars, hourRead,
                 overlayVars, batchVars, clickVars, outcome>>
NavFailedClose ==
  /\ Running /\ pc = "afterNav"
  /\ navResult # "true"
  /\ BrowserClose
  /\ ForgetNavigation
  /\ outcome' = "navFailed"
  /\ pc' = "loop"
  /\ UNCHANGED <<variant, logsDir, config, uncredited, totalVotes, ledgerVars, procVars, hourRead,
                 overlayVars, batchVars, clickVars>>

\* Navigation succeeded: the try block starts with handleConsents.
BeginConsents ==
  /\ Running /\ pc = "afterNav"
  /\ navResult = "true"
  /\ ForgetNavigation
  /\ pc' = "consent"
  /\ UNCHANGED <<variant, logsDir, config, histVars, totalVotes, ledgerVars, procVars, sessVars, hourRead,
                 overlayVars, batchVars, clickVars, outcome>>

-----------------------------------------------------------------------------
(* handleConsents and the wait for the list                                *)

\* Whether an overlay's outcome leaves its try block as an exception: both
\* the wait and the click are inside the try, the catch only logs.
OverlayRaisesOnClick(o) == o = "clickFailed"
OverlayRaises(o) == FALSE

\* The first try block of handleConsents ends with outcome o.
ConsentSettles(o) ==
  /\ consentOutcome' = o
  /\ IF OverlayRaises(o)
       THEN pc' = "close" /\ outcome' = "exception"
       ELSE pc' = "cookie" /\ outcome' = outcome
  /\ UNCHANGED <<variant, logsDir, config, histVars, totalVotes, ledgerVars, procVars, sessVars, hourRead,
                 navVars, cookieOutcome, batchVars, clickVars>>

\* page.waitForSelector(consentButton) resolves: page.click is called.
ConsentWaitFound ==
  /\ Running /\ pc = "consent"
  /\ pc' = "consentClick"
  /\ UNCHANGED <<variant, logsDir, config, histVars, totalVotes, ledgerVars, procVars, sessVars, hourRead,
                 navVars, overlayVars, batchVars, clickVars, outcome>>

\* page.waitForSelector(consentButton) times out: the catch logs it.
ConsentWaitTimeout ==
  /\ Running /\ pc = "consent"
  /\ ConsentSettles("absent")

\* page.click(consentButton) resolves.
ConsentClickOk ==
  /\ Running /\ pc = "consentClick"
  /\ ConsentSettles("clicked")

\* page.click(consentButton) rejects: the catch logs it.
ConsentClickFails ==
  /\ Running /\ pc = "consentClick"
  /\ ConsentSettles("clickFailed")

\* The second try block ends with outcome o and handleConsents returns; the
\* loop starts sleep(1000).
CookieSettles(o) ==
  /\ cookieOutcome' = o
  /\ consented' = ~OverlayRaises(o)
  /\ IF OverlayRaises(o)
       THEN pc' = "close" /\ outcome' = "exception"
       ELSE pc' = "settle" /\ outcome' = outcome
  /\ UNCHANGED <<variant, logsDir, config, delayed, navigated, uncredited, totalVotes, ledgerVars, procVars, sessVars, hourRead,
                 navVars, consentOutcome, batchVars, clickVars>>

\* page.waitForSelector(cookieButton) resolves: page.click is called.
CookieWaitFound ==
  /\ Running /\ pc = "cookie"
  /\ pc' = "cookieClick"
  /\ UNCHANGED <<variant, logsDir, config, histVars, totalVotes, ledgerVars, procVars, sessVars, hourRead,
                 navVars, overlayVars, batchVars, clickVars, outcome>>

\* page.waitForSelector(cookieButton) times out: the catch logs it.
CookieWaitTimeout ==
  /\ Running /\ pc = "cookie"
  /\ CookieSettles("absent")

\* page.click(cookieButton) resolves.
CookieClickOk ==
  /\ Running /\ pc = "cookieClick"
  /\ CookieSettles("clicked")

\* page.click(cookieButton) rejects: the catch logs it.
CookieClickFails ==
  /\ Running /\ pc = "cookieClick"
  /\ CookieSettles("clickFailed")

\* sleep(1000) after handleConsents ends: the wait for the top 20 list.
SettleDone ==
  /\ Running /\ pc = "settle"
  /\ pc' = "listWait"
  /\ UNCHANGED <<variant, logsDir, config, histVars, totalVotes, ledgerVars, procVars, sessVars, hourRead,
                 navVars, overlayVars, batchVars, clickVars, outcome>>

\* votesInThisBatch: randomInterval(1, 5) in index.js, 5 in the Dockerfile.
BatchSizesWide(v) == BatchMin .. BatchMax + 1
BatchSizes(v) == IF v = "rate" THEN BatchMin .. BatchMax ELSE {BatchMax}

\* The list appears; the batch size is drawn and voteMultipleTimes starts.
ListWaitOk ==
  /\ Running /\ pc = "listWait"
  /\ times' \in BatchSizes(variant)
  /\ i' = 0 /\ batchAppended' = 0
  /\ consentOutcome' = "none" /\ cookieOutcome' = "none"
  /\ pc' = "vote"
  /\ UNCHANGED <<variant, logsDir, config, histVars, totalVotes, ledgerVars, procVars, sessVars, hourRead,
                 navVars, buttonId, confirmationVisible, clickVars, outcome>>

\* page.waitForSelector(top20List) times out: the loop's catch logs it.
ListWaitTimeout ==
  /\ Running /\ pc = "listWait"
  /\ consentOutcome' = "none" /\ cookieOutcome' = "none"
  /\ outcome' = "exception"
  /\ pc' = "close"
  /\ UNCHANGED <<variant, logsDir, config, histVars, totalVotes, ledgerVars, procVars, sessVars, hourRead,
                 navVars, batchVars, clickVars>>

-----------------------------------------------------------------------------
(* voteMultipleTimes                                                       *)

\* voteForMain ? mainVoteButtonId : alternativeVoteButtonIds[random index]
ChoosableIds ==
  {MainVoteButtonId}
    \cup {AlternativeVoteButtonIds[k] : k \in 1 .. Len(AlternativeVoteButtonIds)}

\* for (let i = 0; i < times; i++)
VoteLoopContinuesInclusive(k, n) == k <= n
VoteLoopContinues(k, n) == k < n

\* if (votingSuccessful) totalVotes += votesInThisBatch
CreditOne(total, n) == total + 1
Credit(total, n) == total + n

\* The for test fails: return true; the loop credits the batch.
VoteReturn ==
  /\ Running /\ pc = "vote"
  /\ ~VoteLoopContinues(i, times)
  /\ totalVotes' = Credit(totalVotes, times)
  /\ outcome' = "completed"
  /\ pc' = "close"
  /\ UNCHANGED <<variant, logsDir, config, histVars, ledgerVars, procVars, sessVars, hourRead, navVars,
                 overlayVars, batchVars, clickVars>>

\* A button is chosen and waitForSelector finds it.
VoteWaitFound ==
  /\ Running /\ pc = "vote"
  /\ VoteLoopContinues(i, times)
  /\ buttonId' \in ChoosableIds
  /\ pc' = "query"
  /\ UNCHANGED <<variant, logsDir, config, histVars, totalVotes, ledgerVars, procVars, sessVars, hourRead,
                 navVars, overlayVars, times, i, confirmationVisible,
                 batchAppended, clickVars, outcome>>

\* A button is chosen and waitForSelector times out: the exception leaves
\* voteMultipleTimes and is caught by the loop.
VoteWaitTimeout ==
  /\ Running /\ pc = "vote"
  /\ VoteLoopContinues(i, times)
  /\ buttonId' \in ChoosableIds
  /\ outcome' = "exception"
  /\ pc' = "close"
  /\ uncredited' = uncredited + batchAppended
  /\ UNCHANGED <<variant, logsDir, config, delayed, navigated, consented, totalVotes, ledgerVars, procVars, sessVars, hourRead,
                 navVars, overlayVars, times, i, confirmationVisible,
                 batchAppended, clickVars>>

\* page.$ returns the element handle.
QueryHandle ==
  /\ Running /\ pc = "query"
  /\ pc' = "click"
  /\ UNCHANGED <<variant, logsDir, config, histVars, totalVotes, ledgerVars, procVars, sessVars, hourRead,
                 navVars, overlayVars, batchVars, clickVars, outcome>>

\* page.$ returns null (the element went away): "Vote button not found",
\* next iteration.
QueryNull ==
  /\ Running /\ pc = "query"
  /\ i' = i + 1
  /\ pc' = "vote"
  /\ UNCHANGED <<variant, logsDir, config, histVars, totalVotes, ledgerVars, procVars, sessVars, hourRead,
                 navVars, overlayVars, times, buttonId, confirmationVisible,
                 batchAppended, clickVars, outcome>>

\* An await of the iteration rejects: the exception leaves voteMultipleTimes
\* and is caught by the loop.
IterationThrows ==
  /\ outcome' = "exception"
  /\ pc' = "close"
  /\ uncredited' = uncredited + batchAppended
  /\ UNCHANGED <<variant, logsDir, config, delayed, navigated, consented, totalVotes, ledgerVars, procVars, sessVars, hourRead,
                 navVars, overlayVars, batchVars, clickVars>>

\* page.$ rejects (the page or the browser is gone).
QueryThrows ==
  /\ Running /\ pc = "query"
  /\ IterationThrows

\* One of the sleeps of the iteration ends and the next await starts.
IterationGoesOn(next) ==
  /\ pc' = next
  /\ UNCHANGED <<variant, logsDir, config, histVars, totalVotes, ledgerVars, procVars, sessVars, hourRead,
                 navVars, overlayVars, batchVars, clickVars, outcome>>

\* button.evaluate(b => b.scrollIntoView()) resolves: sleep(1000) starts.
ScrollOk ==
  /\ Running /\ pc = "click"
  /\ IterationGoesOn("scrolled")

\* button.evaluate rejects.
ScrollThrows ==
  /\ Running /\ pc = "click"
  /\ IterationThrows

\* sleep(1000) ends: button.click() is called.
ScrollSleepDone ==
  /\ Running /\ pc = "scrolled"
  /\ IterationGoesOn("clicking")

\* button.click() resolves: "Button clicked", sleep(1500) starts.
ClickOk ==
  /\ Running /\ pc = "clicking"
  /\ clicks < MaxClicks
  /\ clicks' = clicks + 1
  /\ clock' = clock + 1
  /\ pc' = "clicked"
  /\ UNCHANGED <<variant, logsDir, config, histVars, totalVotes, ledgerVars, procVars, sessVars, hourRead,
                 navVars, overlayVars, batchVars, outcome>>

\* button.click() rejects.
ClickThrows ==
  /\ Running /\ pc = "clicking"
  /\ IterationThrows

\* sleep(1500) ends: page.$eval on the confirmation element is called.
ClickSleepDone ==
  /\ Running /\ pc = "clicked"
  /\ IterationGoesOn("confirm")

\* if (confirmationVisible) voteLog.votes.push(...)
ShouldRecordAlways(visible) == TRUE
ShouldRecord(visible) == visible

\* { buttonId, timestamp: new Date().toISOString() }
VoteRecord == [buttonId |-> buttonId, timestamp |-> clock]

\* page.$eval gave the confirmation's display: push or not, then
\* sleep(randomInterval(minDelay, maxDelay)) starts.
ConfirmationRead(visible) ==
  /\ confirmationVisible' = visible
  /\ IF ShouldRecord(visible)
       THEN /\ votes' = Append(votes, VoteRecord)
            /\ batchAppended' = batchAppended + 1
       ELSE UNCHANGED <<votes, batchAppended>>
  /\ pc' = "voteSleep"
  /\ UNCHANGED <<variant, logsDir, config, histVars, totalVotes, statistics, files, procVars, sessVars,
                 hourRead, navVars, overlayVars, times, i, buttonId, clickVars, outcome>>

ConfirmVisible ==
  /\ Running /\ pc = "confirm"
  /\ ConfirmationRead(TRUE)

ConfirmNotVisible ==
  /\ Running /\ pc = "confirm"
  /\ ConfirmationRead(FALSE)

\* page.$eval raises (no confirmation element).
ConfirmThrows ==
  /\ Running /\ pc = "confirm"
  /\ IterationThrows

\* The sleep at the end of the iteration ends: i++.
VoteSleepDone ==
  /\ Running /\ pc = "voteSleep"
  /\ i' = i + 1
  /\ pc' = "vote"
  /\ UNCHANGED <<variant, logsDir, config, histVars, totalVotes, ledgerVars, procVars, sessVars, hourRead,
                 navVars, overlayVars, times, buttonId, confirmationVisible,
                 batchAppended, clickVars, outcome>>

-----------------------------------------------------------------------------
(* The end of the loop body, the end of the script, the signals            *)

\* The locals of the loop body and of voteMultipleTimes go out of scope.
ForgetBatch ==
  /\ times' = 0 /\ i' = 0 /\ buttonId' = "none" /\ confirmationVisible' = FALSE
  /\ batchAppended' = 0

\* The process is gone, and with it the locals of the async function.
LocalsGone ==
  /\ hourRead' = -1
  /\ ForgetNavigation
  /\ consentOutcome' = "none" /\ cookieOutcome' = "none"
  /\ ForgetBatch

\* After the try/catch: browser.close(), then the delay when the quota is
\* not met.
SkipCloseAfterBatch ==
  /\ Running /\ pc = "close"
  /\ ForgetBatch
  /\ pc' = IF LoopContinues(totalVotes) THEN "delay" ELSE "loop"
  /\ UNCHANGED <<variant, logsDir, config, histVars, totalVotes, ledgerVars, procVars, sessVars, hourRead,
                 navVars, overlayVars, clickVars, outcome>>
CloseAfterBatch ==
  /\ Running /\ pc = "close"
  /\ BrowserClose
  /\ ForgetBatch
  /\ pc' = IF LoopContinues(totalVotes) THEN "delay" ELSE "loop"
  /\ UNCHANGED <<variant, logsDir, config, uncredited, totalVotes, ledgerVars, procVars, hourRead,
                 navVars, overlayVars, clickVars, outcome>>

\* await browser.close() rejects.  Both calls are outside every try: the
\* async function rejects and the process ends on the unhandled rejection;
\* the script has not closed the browser.
BrowserCloseRejects ==
  /\ pc' = "crashed"
  /\ exitStatus' = "1"
  /\ LocalsGone
  /\ UNCHANGED <<variant, logsDir, config, histVars, totalVotes, ledgerVars, signal, sessVars,
                 clickVars, outcome>>

\* The close after a failed navigation rejects.
NavFailedCloseRejects ==
  /\ Running /\ pc = "afterNav"
  /\ navResult # "true"
  /\ BrowserCloseRejects

\* The close after the try/catch rejects.
CloseAfterBatchRejects ==
  /\ Running /\ pc = "close"
  /\ BrowserCloseRejects

\* sleep(delayBetweenSessions) / sleep(delayBetweenBatches) ends.
DelayDone ==
  /\ Running /\ pc = "delay"
  /\ pc' = "loop"
  /\ delayed' = TRUE
  /\ UNCHANGED <<variant, logsDir, config, navigated, consented, uncredited, totalVotes, ledgerVars, procVars, sessVars, hourRead,
                 navVars, overlayVars, batchVars, clickVars, outcome>>

\* The async function has ended; the process ends with status 0 once
\* nothing keeps the event loop alive.  The scripts never close the
\* forwarding servers anonymizeProxy started, so the step can be taken but
\* nothing obliges it.
NaturalExit ==
  /\ Running /\ pc = "done"
  /\ exitStatus' = "0"
  /\ pc' = "exited"
  /\ UNCHANGED <<variant, logsDir, config, histVars, totalVotes, ledgerVars, signal, sessVars, hourRead,
                 navVars, overlayVars, batchVars, clickVars, outcome>>

\* Dockerfile: process.on('SIGTERM' / 'SIGINT', saveAndExit).
SignalSaveAndExit ==
  /\ Running /\ variant = "window" /\ pc # "start"
  /\ logsDir
  /\ signal' \in Signals
  /\ SaveVoteLog
  /\ exitStatus' = "0"
  /\ pc' = "exited"
  /\ LocalsGone
  /\ UNCHANGED <<variant, logsDir, config, histVars, totalVotes, votes, sessVars, clickVars, outcome>>

\* Dockerfile: saveVoteLog throws inside saveAndExit: process.exit(0) is not
\* reached and the process ends on the uncaught exception.
SignalSaveThrows ==
  /\ Running /\ variant = "window" /\ pc # "start"
  /\ ~logsDir
  /\ signal' \in Signals
  /\ SaveVoteLogThrows
  /\ exitStatus' = "1"
  /\ pc' = "crashed"
  /\ LocalsGone
  /\ UNCHANGED <<variant, logsDir, config, histVars, totalVotes, votes, sessVars, clickVars, outcome>>

\* index.js registers no handler (and the Dockerfile's script has none yet
\* while it loads its configuration): the signal's default action ends the
\* process, nothing is written.
SignalDefault ==
  /\ Running /\ (variant = "rate" \/ pc = "start")
  /\ \E sig \in Signals : signal' = sig /\ exitStatus' = sig
  /\ pc' = "killed"
  /\ LocalsGone
  /\ UNCHANGED <<variant, logsDir, config, histVars, totalVotes, ledgerVars, sessVars, clickVars, outcome>>

Next ==
  \/ LoopExit \/ LoopExitSaveThrows \/ LoopEnter \/ WindowInside \/ WindowOutside \/ WindowWake
  \/ AnonymizeProxyOk \/ LaunchOk \/ NewPageOk
  \/ AnonymizeProxyFails \/ LaunchFails \/ NewPageFails
  \/ NavGotoOk \/ NavGotoFailRetry \/ NavBackoffDone \/ NavGotoFailLast
  \/ NavFailedClose \/ NavFailedCloseRejects \/ BeginConsents
  \/ ConsentWaitFound \/ ConsentWaitTimeout \/ ConsentClickOk \/ ConsentClickFails
  \/ CookieWaitFound \/ CookieWaitTimeout \/ CookieClickOk \/ CookieClickFails
  \/ SettleDone \/ ListWaitOk \/ ListWaitTimeout
  \/ VoteReturn \/ VoteWaitFound \/ VoteWaitTimeout
  \/ QueryHandle \/ QueryNull \/ QueryThrows
  \/ ScrollOk \/ ScrollThrows \/ ScrollSleepDone \/ ClickOk \/ ClickThrows
  \/ ClickSleepDone \/ ConfirmVisible \/ ConfirmNotVisible \/ ConfirmThrows
  \/ VoteSleepDone
  \/ CloseAfterBatch \/ CloseAfterBatchRejects \/ DelayDone \/ NaturalExit
  \/ SignalSaveAndExit \/ SignalSaveThrows \/ SignalDefault

Spec == Init /\ [][Next]_vars

-----------------------------------------------------------------------------
(* The functions on their own, on every input within the bounds.           *)

\* A session is open and the loop's locals are fresh.
OneSessionOpen ==
  /\ variant \in Variants
  /\ logsDir \in LogsDirStates(variant)
  /\ totalVotes = 0
  /\ votes = <<>> /\ statistics = NoStatistics /\ files = <<>>
  /\ exitStatus = "running" /\ signal = "none"
  /\ sessions = <<[proxy |-> 1, closes |-> 0]>> /\ live = {1} /\ cur = 1
  /\ proxyCalls = 1 /\ newProxyUrl = 0
  /\ hourRead = -1
  /\ consentOutcome = "none" /\ cookieOutcome = "none"
  /\ clicks = 0 /\ clock = 0
  /\ outcome = "none"
  /\ config = "valid"
  /\ delayed = FALSE /\ uncredited = 0

\* navigateWithRetry(page, url, retries) against every plan of goto outcomes.
NavInit ==
  /\ OneSessionOpen
  /\ pc = "nav"
  /\ navRetries \in 0 .. MaxRetries
  /\ navPlan \in [1 .. MaxRetries -> BOOLEAN]
  /\ navI = 0 /\ gotoCalls = 0 /\ navSleeps = 0 /\ navResult = "none"
  /\ NoBatch
  /\ navigated = FALSE /\ consented = FALSE

NavNext ==
  NavGotoOk \/ NavGotoFailRetry \/ NavBackoffDone \/ NavGotoFailLast \/ NavFallOff

NavSpec == NavInit /\ [][NavNext]_vars

\* voteMultipleTimes(page, selectors, times, ...) on an empty ledger.
VoteInit ==
  /\ OneSessionOpen
  /\ pc = "vote"
  /\ NoNavigation
  /\ times \in 0 .. MaxTimes
  /\ i = 0 /\ buttonId = "none" /\ confirmationVisible = FALSE /\ batchAppended = 0
  /\ navigated = TRUE /\ consented = TRUE

VoteNext ==
  \/ VoteReturn \/ VoteWaitFound \/ VoteWaitTimeout
  \/ QueryHandle \/ QueryNull \/ QueryThrows
  \/ ScrollOk \/ ScrollThrows \/ ScrollSleepDone \/ ClickOk \/ ClickThrows
  \/ ClickSleepDone \/ ConfirmVisible \/ ConfirmNotVisible \/ ConfirmThrows
  \/ VoteSleepDone

VoteSpec == VoteInit /\ [][VoteNext]_vars

\* The ledgers of at most MaxRecords records over SaveIds, the k-th record
\* stamped k.
Ledgers ==
  UNION {{[k \in 1 .. n |-> [buttonId |-> f[k], timestamp |-> k]] :
            f \in [1 .. n -> SaveIds]} : n \in 0 .. MaxRecords}

\* saveVoteLog at the end of the loop, on every such ledger.
SaveInit ==
  /\ variant \in Variants
  /\ logsDir \in LogsDirStates(variant)
  /\ pc = "loop"
  /\ totalVotes = MaxVotes
  /\ votes \in Ledgers
  /\ statistics = NoStatistics /\ files = <<>>
  /\ exitStatus = "running" /\ signal = "none"
  /\ sessions = <<>> /\ live = {} /\ cur = 0 /\ proxyCalls = 0 /\ newProxyUrl = 0
  /\ hourRead = -1
  /\ NoNavigation
  /\ consentOutcome = "none" /\ cookieOutcome = "none"
  /\ NoBatch
  /\ clicks = Len(votes) /\ clock = Len(votes)
  /\ outcome = "none"
  /\ config = "valid"
  /\ delayed = FALSE /\ navigated = FALSE /\ consented = FALSE
  /\ uncredited = 0

SaveNext == LoopExit \/ LoopExitSaveThrows

SaveSpec == SaveInit /\ [][SaveNext]_vars

\* The scripts from their first line, on every configuration document.
ConfigInit ==
  /\ variant \in Variants
  /\ logsDir \in LogsDirStates(variant)
  /\ pc = "start"
  /\ config \in Configs
  /\ totalVotes = 0
  /\ votes = <<>> /\ statistics = NoStatistics /\ files = <<>>
  /\ exitStatus = "running" /\ signal = "none"
  /\ sessions = <<>> /\ live = {} /\ cur = 0 /\ proxyCalls = 0 /\ newProxyUrl = 0
  /\ hourRead = -1
  /\ NoNavigation
  /\ consentOutcome = "none" /\ cookieOutcome = "none"
  /\ NoBatch
  /\ clicks = 0 /\ clock = 0
  /\ outcome = "none"
  /\ delayed = FALSE /\ navigated = FALSE /\ consented = FALSE
  /\ uncredited = 0

\* What the top level does with the document before the loop: JSON.parse
\* raises on text that is not JSON, and reading a property of the missing
\* voting object raises a TypeError; a missing property of an object that is
\* there reads as undefined and raises nothing.
ConfigRejected(c) == c \in {"malformed", "noVoting"}

\* The process ends on the uncaught exception.
LoadConfigFails ==
  /\ Running /\ pc = "start"
  /\ ConfigRejected(config)
  /\ pc' = "crashed"
  /\ exitStatus' = "1"
  /\ UNCHANGED <<variant, logsDir, config, histVars, totalVotes, ledgerVars, signal, sessVars,
                 hourRead, navVars, overlayVars, batchVars, clickVars, outcome>>

\* The top level completes and the loop starts.
LoadConfigOk ==
  /\ Running /\ pc = "start"
  /\ ~ConfigRejected(config)
  /\ pc' = "loop"
  /\ UNCHANGED <<variant, logsDir, config, histVars, totalVotes, ledgerVars, procVars, sessVars,
                 hourRead, navVars, overlayVars, batchVars, clickVars, outcome>>

ConfigNext == LoadConfigFails \/ LoadConfigOk \/ Next

ConfigSpec == ConfigInit /\ [][ConfigNext]_vars

\* What the script does by itself: every step but the delivery of a signal.
ProgramStep ==
  \/ LoopExit \/ LoopExitSaveThrows \/ LoopEnter \/ WindowInside \/ WindowOutside \/ WindowWake
  \/ AnonymizeProxyOk \/ LaunchOk \/ NewPageOk
  \/ AnonymizeProxyFails \/ LaunchFails \/ NewPageFails
  \/ NavGotoOk \/ NavGotoFailRetry \/ NavBackoffDone \/ NavGotoFailLast
  \/ NavFailedClose \/ NavFailedCloseRejects \/ BeginConsents
  \/ ConsentWaitFound \/ ConsentWaitTimeout \/ ConsentClickOk \/ ConsentClickFails
  \/ CookieWaitFound \/ CookieWaitTimeout \/ CookieClickOk \/ CookieClickFails
  \/ SettleDone \/ ListWaitOk \/ ListWaitTimeout
  \/ VoteReturn \/ VoteWaitFound \/ VoteWaitTimeout
  \/ QueryHandle \/ QueryNull \/ QueryThrows
  \/ ScrollOk \/ ScrollThrows \/ ScrollSleepDone \/ ClickOk \/ ClickThrows
  \/ ClickSleepDone \/ ConfirmVisible \/ ConfirmNotVisible \/ ConfirmThrows
  \/ VoteSleepDone
  \/ CloseAfterBatch \/ CloseAfterBatchRejects \/ DelayDone \/ NaturalExit

LiveNext == ProgramStep

\* The steps the scripts cannot be stopped at for ever: the code that runs
\* without an await (the loop test, the window test, the end of the loop,
\* the start of handleConsents, the return of voteMultipleTimes), the sleeps,
\* and the awaits that are given a timeout (page.goto, the waitForSelector
\* calls, page.click of the overlays).  anonymizeProxy, puppeteer.launch,
\* browser.newPage, page.$, button.evaluate, button.click, page.$eval and
\* browser.close are awaited without a timeout and are not among them.
TimedStep ==
  \/ LoopExit \/ LoopExitSaveThrows \/ LoopEnter \/ WindowInside \/ WindowOutside
  \/ WindowWake
  \/ NavGotoOk \/ NavGotoFailRetry \/ NavBackoffDone \/ NavGotoFailLast
  \/ BeginConsents
  \/ ConsentWaitFound \/ ConsentWaitTimeout \/ ConsentClickOk \/ ConsentClickFails
  \/ CookieWaitFound \/ CookieWaitTimeout \/ CookieClickOk \/ CookieClickFails
  \/ SettleDone \/ ListWaitOk \/ ListWaitTimeout
  \/ VoteReturn \/ VoteWaitFound \/ VoteWaitTimeout
  \/ ScrollSleepDone \/ ClickSleepDone \/ VoteSleepDone
  \/ DelayDone

\* The script left to itself, no signal delivered, never stopped for ever at
\* a sleep, at an await with a timeout or between two awaits.
LiveSpec == Init /\ [][LiveNext]_vars /\ WF_vars(TimedStep)

\* The positions of initializeBrowserWithNewIP, of navigateWithRetry, of
\* handleConsents up to the wait for the list, and of voteMultipleTimes.
SetupPositions == {"open", "launch", "newPage"}
NavPositions == {"nav", "navSleep", "afterNav"}
ConsentPositions == {"consent", "consentClick", "cookie", "cookieClick", "settle", "listWait"}
VotePositions ==
  {"vote", "query", "click", "scrolled", "clicking", "clicked", "confirm", "voteSleep"}

\* The loop has been left with the quota met and the ledger persisted.
QuotaMet == pc \in {"done", "exited"} /\ totalVotes >= MaxVotes /\ Len(files) >= 1

-----------------------------------------------------------------------------
(* Properties                                                              *)

\* The first attempt of the plan that succeeds among the first n, 0 if none.
FirstSuccess(plan, n) ==
  IF \E k \in 1 .. n : plan[k]
    THEN CHOOSE k \in 1 .. n : plan[k] /\ \A j \in 1 .. (k - 1) : ~plan[j]
    ELSE 0

\* C1: navigateWithRetry with retries >= 1 returns true at the first attempt
\* k <= retries that succeeds, after exactly k goto calls; when all retries
\* attempts fail it returns false after exactly retries goto calls; it never
\* makes attempt retries + 1 and never leaves by an exception.
C1_NavigateWithRetry ==
  (navRetries >= 1) =>
    /\ gotoCalls <= navRetries
    /\ pc \in NavPositions
    /\ (pc = "afterNav") =>
         LET k == FirstSuccess(navPlan, navRetries) IN
           IF k > 0 THEN navResult = "true" /\ gotoCalls = k
                    ELSE navResult = "false" /\ gotoCalls = navRetries

\* fail, fail, succeed with retries = 3 has returned true after 3 calls.
C1_Witness ==
  /\ pc = "afterNav" /\ navRetries = 3
  /\ ~navPlan[1] /\ ~navPlan[2] /\ navPlan[3]
  /\ navResult = "true" /\ gotoCalls = 3

\* C2: every browser the loop's initializeBrowserWithNewIP opened has been
\* closed exactly once when the next iteration starts or the loop has ended,
\* whichever way it ended; a session still in use has not been closed.
C2_SessionsClosedOnce ==
  /\ \A s \in 1 .. Len(sessions) :
       sessions[s].closes = (IF s \in live THEN 0 ELSE 1)
  /\ (pc \in {"loop", "windowSleep", "open", "launch", "delay", "done", "crashed"}) =>
       live = {}

\* C3: after a termination signal the ledger has been persisted with exactly
\* the records it held, with the summary computed from them, and the process
\* has exited with status 0.
C3_SignalPersistsLedger ==
  (signal # "none") =>
    /\ exitStatus = "0"
    /\ Len(files) >= 1
    /\ files[Len(files)].votes = votes
    /\ files[Len(files)].statistics.totalVotes = Len(votes)

\* C4: one call of voteMultipleTimes(times) appends at most times records.
C4_BatchAppendsAtMostTimes ==
  /\ batchAppended <= times
  /\ Len(votes) = batchAppended

\* A batch of 2 has completed with both votes recorded.
C4_Witness ==
  /\ pc = "close" /\ outcome = "completed" /\ times = 2 /\ batchAppended = 2

\* C5: the ledger never holds more records than clicks were performed; a
\* record is appended only by the step that read the confirmation as visible
\* after a click, and a click whose confirmation is not visible appends
\* nothing and goes on to the next iteration.
C5_RecordOnlyConfirmedClicks ==
  /\ [](Len(votes) <= clicks)
  /\ [][(votes' # votes) =>
          /\ pc = "confirm" /\ confirmationVisible'
          /\ votes' = Append(votes, [buttonId |-> buttonId, timestamp |-> clock])]_vars
  /\ [][(pc = "confirm" /\ pc' = "voteSleep" /\ ~confirmationVisible') =>
          (votes' = votes /\ outcome' = outcome)]_vars
  /\ [][(pc = "voteSleep" /\ exitStatus' = "running") =>
          (pc' = "vote" /\ i' = i + 1 /\ votes' = votes /\ outcome' = outcome)]_vars

\* Two clicks, one of them not confirmed: one record, and the batch went on.
C5_Witness ==
  /\ pc = "vote" /\ clicks = 2 /\ Len(votes) = 1 /\ i = 2
  /\ ~confirmationVisible

\* C6: in the windowed variant a session is opened only in an iteration whose
\* hour was inside [start, end); with the hour outside the loop opens no
\* session, sleeps, and goes back to the loop test.
C6_NoSessionOutsideWindow ==
  /\ []((variant = "window" /\ pc \in SetupPositions) =>
          (hourRead >= VoteWindowStart /\ hourRead < VoteWindowEnd))
  /\ []((pc = "windowSleep") =>
          (~(hourRead >= VoteWindowStart /\ hourRead < VoteWindowEnd) /\ live = {}))
  /\ [][(variant = "window" /\ (proxyCalls' # proxyCalls \/ sessions' # sessions) /\
         Len(sessions') >= Len(sessions) /\ pc \in SetupPositions) =>
          (hourRead >= VoteWindowStart /\ hourRead < VoteWindowEnd)]_vars
  /\ [][(variant = "window" /\ Len(sessions') > Len(sessions)) => pc = "launch"]_vars
  /\ [][(pc = "windowSleep" /\ exitStatus' = "running") =>
          (pc' = "loop" /\ sessions' = sessions)]_vars

\* The hour equal to the window's end is outside: the loop sleeps.
C6_Witness ==
  /\ variant = "window" /\ pc = "windowSleep" /\ hourRead = VoteWindowEnd
  /\ Len(sessions) = 1

\* C7: handleConsents never raises: whatever happens with the consent
\* overlay the cookie overlay is attempted next, and whatever happens with
\* the cookie overlay the caller goes on to the wait for the list.
C7_HandleConsentsNeverRaises ==
  /\ [][(pc \in {"consent", "consentClick"} /\ exitStatus' = "running") =>
          /\ pc' \in {"consentClick", "cookie"}
          /\ pc' = "cookie" => consentOutcome' \in OverlayOutcomes
          /\ outcome' = outcome]_vars
  /\ [][(pc \in {"cookie", "cookieClick"} /\ exitStatus' = "running") =>
          /\ pc' \in {"cookieClick", "settle"}
          /\ pc' = "settle" => cookieOutcome' \in OverlayOutcomes
          /\ outcome' = outcome]_vars
  /\ [][(pc = "settle" /\ exitStatus' = "running") =>
          (pc' = "listWait" /\ outcome' = outcome)]_vars

\* The consent click failed, the cookie overlay was absent, and the caller
\* is waiting for the list.
C7_Witness ==
  /\ pc = "listWait" /\ consentOutcome = "clickFailed" /\ cookieOutcome = "absent"
  /\ outcome = "none"

\* Number of records of the ledger with identifier id.
RecordsOf(vs, id) == Cardinality({k \in 1 .. Len(vs) : vs[k].buttonId = id})

\* C8: the document saveVoteLog persists holds the ledger's records in order
\* and unchanged, totalVotes = k, and for every identifier the number of
\* records that carry it.
C8_SavedDocumentCounts ==
  (pc = "done") =>
    LET doc == files[Len(files)] IN
      /\ doc.votes = votes
      /\ doc.statistics.totalVotes = Len(votes)
      /\ \A id \in SaveIds :
           RecordsOf(votes, id) > 0 =>
             /\ id \in DOMAIN doc.statistics.votesByCandidate
             /\ doc.statistics.votesByCandidate[id] = Num(RecordsOf(votes, id))

\* C9: the running total changes only when a batch has completed all its
\* iterations, and then by exactly the batch's size; a navigation failure or
\* an exception leaves it unchanged and the loop goes on (to the close of
\* the session or to the next loop test).
C9_TotalChangesOnlyOnCompletedBatch ==
  /\ [][(totalVotes' # totalVotes) =>
          /\ pc = "vote" /\ i = times
          /\ totalVotes' = totalVotes + times
          /\ outcome' = "completed"]_vars
  /\ [][(outcome' # outcome /\ outcome' \in {"navFailed", "exception"}) =>
          (totalVotes' = totalVotes /\ pc' \in {"close", "loop"})]_vars

\* A batch of 2 was credited, and a later batch ended by an exception after
\* one recorded vote: the total is still 2.
C9_Witness ==
  /\ pc = "close" /\ outcome = "exception" /\ totalVotes = 2 /\ batchAppended = 1
  /\ Len(sessions) = 2

\* C10: at most one browser session is live, and it is the one the loop
\* holds.
C10_AtMostOneLiveSession ==
  /\ Cardinality(live) <= 1
  /\ live # {} => live = {cur}

\* The third session is live, the two before it are closed.
C10_Witness ==
  /\ Len(sessions) = 3 /\ live = {3}
  /\ sessions[1].closes = 1 /\ sessions[2].closes = 1


\* C11: in voteMultipleTimes an iteration whose vote button is not found
\* within the wait is skipped: no record is appended, no error is raised and
\* the batch goes on with the next iteration.
C11_MissingButtonSkipsIteration ==
  [][(pc = "vote" /\ i < times /\ exitStatus' = "running" /\ pc' # "query") =>
       (pc' = "vote" /\ i' = i + 1 /\ votes' = votes /\ outcome' = outcome)]_vars

\* C12: when session setup fails (anonymizeProxy or the launch raises) the
\* loop abandons the session, leaves the running total unchanged and goes
\* back to the loop test; the campaign does not end.
C12_SetupFailureRetried ==
  [][(outcome' \in SetupStages /\ outcome \notin SetupStages) =>
       (exitStatus' = "running" /\ pc' = "loop" /\ totalVotes' = totalVotes)]_vars

\* C13: with a configuration document that is malformed or lacks a required
\* field the process ends with an error at startup, before any session is
\* opened and before any ledger is persisted.
C13_BadConfigFailsAtStartup ==
  (config # "valid" /\ pc # "start" /\ signal = "none") =>
    /\ pc = "crashed" /\ exitStatus = "1"
    /\ sessions = <<>>
    /\ files = <<>>

\* C14: every session opening makes one anonymizeProxy call, the session's
\* browser is launched on the endpoint of that call only, and no two
\* sessions have the same endpoint.
C14_OneProxyIdentityPerSession ==
  /\ [](/\ \A s \in 1 .. Len(sessions) : sessions[s].proxy = s
        /\ \A s, t \in 1 .. Len(sessions) :
             s # t => sessions[s].proxy # sessions[t].proxy
        /\ proxyCalls - Len(sessions) \in {0, 1}
        /\ Running => proxyCalls = Len(sessions) + (IF pc = "launch" THEN 1 ELSE 0))
  /\ [][proxyCalls' # proxyCalls => (pc = "open" /\ proxyCalls' = proxyCalls + 1)]_vars
  /\ [][Len(sessions') > Len(sessions) =>
          /\ pc = "launch" /\ newProxyUrl = proxyCalls
          /\ sessions' = Append(sessions, [proxy |-> newProxyUrl, closes |-> 0])]_vars

\* Two sessions were opened, each on the endpoint of its own call.
C14_Witness ==
  /\ Len(sessions) >= 2
  /\ sessions[1].proxy # sessions[2].proxy
  /\ proxyCalls = Len(sessions)

\* While the quota is not met another batch completes: the running total,
\* which only a completed batch changes, does not stay below maxVotes.
BatchesKeepCompleting ==
  \A n \in 0 .. (MaxVotes - 1) : (totalVotes = n) ~> (totalVotes > n)

\* C15: the loop opens no session once the running total has reached
\* maxVotes and every completed batch raises the total; and when batches
\* keep completing (which, in the windowed variant, needs the clock inside
\* the window again and again) and no await stays pending for ever, the
\* script reaches a state with the running total >= maxVotes, the loop left
\* and the ledger persisted.
C15_RunsUntilQuotaMet ==
  /\ [](pc \in SetupPositions => totalVotes < MaxVotes)
  /\ [][(outcome' = "completed" /\ outcome # "completed") =>
          totalVotes' > totalVotes]_vars
  /\ (WF_vars(ProgramStep) /\ BatchesKeepCompleting) => <>QuotaMet

\* C16: between the close of one browser session and the opening of the
\* next the inter-batch delay is always slept, whether the earlier session
\* ended by success, by a voting exception or by navigation failure.
C16_DelayBetweenSessions ==
  (pc = "open" /\ Len(sessions) >= 1) => delayed

\* C17: within a session the steps come in the order open, navigate, handle
\* consents, vote, close: a click or a ledger append happens only in a live
\* session whose navigation returned true and whose handleConsents has
\* completed, never after the close; a session whose navigation returned
\* false is closed with no consent handling and no click.
C17_SessionStepsInOrder ==
  /\ [](/\ pc \in {"open", "launch"} => live = {}
        /\ pc \in {"newPage", "nav", "navSleep"} => (cur \in live /\ ~navigated /\ ~consented)
        /\ pc = "afterNav" => (cur \in live /\ ~consented)
        /\ pc \in ConsentPositions => (cur \in live /\ navigated)
        /\ pc \in VotePositions => (cur \in live /\ navigated /\ consented)
        /\ (live = {} /\ Running) =>
             pc \notin {"newPage", "close"} \cup NavPositions \cup ConsentPositions \cup VotePositions)
  /\ [][(clicks' # clicks \/ votes' # votes) =>
          (cur \in live /\ cur' = cur /\ navigated /\ consented)]_vars
  /\ [][(consentOutcome' \notin {consentOutcome, "none"} \/
         cookieOutcome' \notin {cookieOutcome, "none"}) =>
          (cur \in live /\ navigated /\ ~consented)]_vars
  /\ [][(pc = "afterNav" /\ navResult # "true" /\ exitStatus' = "running") =>
          (pc' = "loop" /\ live' = {} /\ clicks' = clicks /\ votes' = votes)]_vars

C17_Witness ==
  /\ pc = "close" /\ cur \in live
  /\ navigated /\ consented
  /\ batchAppended >= 1 /\ clicks >= 1
  /\ Len(sessions) >= 2 /\ sessions[1].closes = 1

\* C18: navigateWithRetry sleeps a backoff after every failed attempt but
\* the last allowed one: f sleeps when it returns true after f failed
\* attempts, retries - 1 sleeps when all retries attempts fail; no sleep
\* follows the final failed attempt or a successful attempt.
C18_BackoffAfterFailedAttempts ==
  /\ []((navRetries >= 1 /\ pc = "nav") => navSleeps = navI)
  /\ []((navRetries >= 1 /\ pc = "navSleep") =>
          (navSleeps = navI + 1 /\ navI + 1 < navRetries /\ ~navPlan[navI + 1]))
  /\ []((navRetries >= 1 /\ pc = "afterNav") =>
          LET k == FirstSuccess(navPlan, navRetries) IN
            navSleeps = IF k > 0 THEN k - 1 ELSE navRetries - 1)
  /\ [][navSleeps' # navSleeps =>
          /\ navSleeps' = navSleeps + 1
          /\ pc = "nav" /\ ~navPlan[navI + 1] /\ navI + 1 < navRetries
          /\ pc' = "navSleep"]_vars
  /\ [][pc = "navSleep" => (pc' = "nav" /\ navI' = navI + 1)]_vars

\* Four attempts that all fail: three sleeps, none after the fourth.
C18_Witness ==
  /\ pc = "afterNav" /\ navRetries = 4
  /\ FirstSuccess(navPlan, navRetries) = 0
  /\ navResult = "false" /\ navSleeps = 3

\* C19: the running total never decreases, and when the loop ends normally
\* maxVotes <= totalVotes <= maxVotes + B - 1 with B = 5 the largest batch
\* size; batch sizes are 1..5 in the rate-based variant and always 5 in the
\* windowed variant, where the total is a multiple of 5.
C19_OvershootLessThanOneBatch ==
  /\ [][totalVotes' >= totalVotes]_vars
  /\ []((pc \in {"done", "exited"} /\ signal = "none") =>
          (MaxVotes <= totalVotes /\ totalVotes <= MaxVotes + BatchMax - 1))
  /\ [](pc \in VotePositions =>
          (times \in 1 .. 5 /\ (variant = "window" => times = 5)))
  /\ [](variant = "window" => totalVotes % 5 = 0)

\* Both variants can end with the largest overshoot.
C19_Witness ==
  /\ pc = "done" /\ signal = "none"
  /\ totalVotes = MaxVotes + BatchMax - 1
  /\ Len(files) = 1

\* C20 as stated: while the process runs the ledger holds at most as many
\* records as the running total plus the size of the batch in progress, and
\* at most maxVotes + 4 at normal completion, also after batches aborted by
\* an exception.
C20_LedgerWithinRunningTotal ==
  Running =>
    /\ Len(votes) <= totalVotes + (IF pc \in VotePositions THEN times ELSE 0)
    /\ pc = "done" => Len(votes) <= MaxVotes + BatchMax - 1

\* C20: while the process runs the ledger holds at most as many records as
\* the running total, plus the size of the batch in progress, plus the
\* records appended by the batches that an exception aborted; these are
\* never credited to the running total, so at normal completion the ledger
\* holds at most maxVotes + 4 records more than the aborted batches left.
C20_LedgerWithinAccounting ==
  Running =>
    /\ Len(votes) <= totalVotes + (IF pc \in VotePositions THEN times ELSE 0) + uncredited
    /\ uncredited <= Len(votes)
    /\ pc = "done" => Len(votes) <= MaxVotes + BatchMax - 1 + uncredited

\* A batch was aborted after two appends: the ledger is ahead of the total.
C20_Witness ==
  /\ Running /\ pc = "open"
  /\ uncredited = 2 /\ Len(votes) = 2
  /\ totalVotes = 0

====
